---- MODULE Spec2Model ----
(***************************************************************************)
(* A model of the KuKu-FM story generator: the JSON layer shared by every  *)
(* component (json.loads / json.dumps, safe_json_parse), the episode loop  *)
(* of create_story and the outline pipeline of outlines.py.                *)
(*                                                                         *)
(* Text is a sequence of one-character strings.  A JSON value is a record  *)
(* [t, s, items]: t is its type, s the characters of a string (or the      *)
(* digits of a number), items the elements of an array or the members of   *)
(* an object (each member a "pair" whose s is the key and whose items is   *)
(* the one value).  A JSON string is a Python str; Python's None (JSON's    *)
(* null) is the value of type "none".                                      *)
(***************************************************************************)
EXTENDS Integers, Sequences, FiniteSets, TLC

\* ------------------------------------------------------------------ text

BS == "\\"
DQ == "\""
NL == "\n"
TAB == "\t"
CR == "\r"
FF == "\f"
BSP == "<backspace>"
SP == " "

\* str.isspace() over the characters of the model
Whitespace == {SP, NL, TAB, CR, FF}

\* the whitespace json.decoder skips between tokens
JsonWhitespace == {SP, NL, TAB, CR}

\* characters json.loads (strict) rejects inside a string literal
ControlChars == {NL, TAB, CR, FF, BSP}

Digits == {"0", "1", "2", "3", "4", "5", "6", "7", "8", "9"}

Min(S) == CHOOSE x \in S : \A y \in S : x <= y
Max(S) == CHOOSE x \in S : \A y \in S : x >= y

RECURSIVE LStrip(_)
LStrip(s) ==
    IF s # <<>> /\ Head(s) \in Whitespace THEN LStrip(Tail(s)) ELSE s

RECURSIVE RStrip(_)
RStrip(s) ==
    IF s # <<>> /\ s[Len(s)] \in Whitespace
    THEN RStrip(SubSeq(s, 1, Len(s) - 1))
    ELSE s

\* str.strip()
Strip(s) == RStrip(LStrip(s))

\* ------------------------------------------------------------ JSON values

JStr(s) == [t |-> "str", s |-> s, items |-> <<>>]
JNum(s) == [t |-> "num", s |-> s, items |-> <<>>]
JLit(name) == [t |-> name, s |-> <<>>, items |-> <<>>]
JArr(items) == [t |-> "arr", s |-> <<>>, items |-> items]
JObj(pairs) == [t |-> "obj", s |-> <<>>, items |-> pairs]
JPair(k, v) == [t |-> "pair", s |-> k, items |-> <<v>>]
\* Python's None, which is JSON's null
PyNone == JLit("none")

\* dict.keys()
Keys(obj) == {obj.items[i].s : i \in DOMAIN obj.items}

\* `k in d`
HasKey(obj, k) == obj.t = "obj" /\ k \in Keys(obj)

\* d[k], for a key the dict has
Get(obj, k) ==
    LET i == CHOOSE j \in DOMAIN obj.items : obj.items[j].s = k
    IN  obj.items[i].items[1]

\* d[k] = v: a key the dict has keeps its place, a new key goes last
SetKey(obj, k, v) ==
    IF k \in Keys(obj)
    THEN JObj([i \in DOMAIN obj.items |->
                 IF obj.items[i].s = k THEN JPair(k, v) ELSE obj.items[i]])
    ELSE JObj(Append(obj.items, JPair(k, v)))

\* ------------------------------------------------------------- json.loads
\* The decoder of Python's json module over the texts of the model:
\* objects, arrays, strings with the escapes \" \\ \/ \b \f \n \r \t,
\* integers and the literals null, true, false.  (Fractions, exponents and
\* \uXXXX escapes do not occur in the texts the model feeds it.)

ParseFail == [ok |-> FALSE, val |-> PyNone, pos |-> 0]
ParseOk(v, p) == [ok |-> TRUE, val |-> v, pos |-> p]

Unescape(c) ==
    CASE c = "b" -> BSP
      [] c = "f" -> FF
      [] c = "n" -> NL
      [] c = "r" -> CR
      [] c = "t" -> TAB
      [] OTHER -> c

SimpleEscapes == {DQ, BS, "/", "b", "f", "n", "r", "t"}

RECURSIVE SkipWs(_, _)
SkipWs(text, i) ==
    IF i <= Len(text) /\ text[i] \in JsonWhitespace THEN SkipWs(text, i + 1) ELSE i

\* py_scanstring: i is the place after the opening quote
RECURSIVE ScanString(_, _, _)
ScanString(text, i, acc) ==
    LET terminators == {j \in i .. Len(text) : text[j] \in {DQ, BS} \cup ControlChars}
    IN  IF terminators = {} THEN ParseFail
        ELSE LET end == Min(terminators)
                 chunks == acc \o SubSeq(text, i, end - 1)
             IN  IF text[end] = DQ THEN ParseOk(JStr(chunks), end + 1)
                 ELSE IF text[end] = BS
                      THEN IF end + 1 <= Len(text) /\ text[end + 1] \in SimpleEscapes
                           THEN ScanString(text, end + 2,
                                           Append(chunks, Unescape(text[end + 1])))
                           ELSE ParseFail
                 ELSE ParseFail

RECURSIVE ScanDigits(_, _)
ScanDigits(text, i) ==
    IF i <= Len(text) /\ text[i] \in Digits THEN ScanDigits(text, i + 1) ELSE i

\* NUMBER_RE, integer part: -?(0|[1-9][0-9]*)
ScanNumber(text, i) ==
    LET d == IF text[i] = "-" THEN i + 1 ELSE i
        e == IF d <= Len(text) /\ text[d] = "0" THEN d + 1 ELSE ScanDigits(text, d)
    IN  IF e > d THEN ParseOk(JNum(SubSeq(text, i, e - 1)), e) ELSE ParseFail

StartsWith(text, i, word) ==
    /\ i + Len(word) - 1 <= Len(text)
    /\ SubSeq(text, i, i + Len(word) - 1) = word

RECURSIVE ScanValue(_, _)
RECURSIVE ScanMembers(_, _, _)
RECURSIVE ScanElements(_, _, _)

\* JSONObject: i is the place where a key's opening quote must stand
ScanMembers(text, i, obj) ==
    IF i > Len(text) \/ text[i] # DQ THEN ParseFail
    ELSE LET k == ScanString(text, i + 1, <<>>) IN
         IF ~k.ok THEN ParseFail
         ELSE LET c == SkipWs(text, k.pos) IN
              IF c > Len(text) \/ text[c] # ":" THEN ParseFail
              ELSE LET v == ScanValue(text, SkipWs(text, c + 1)) IN
                   IF ~v.ok THEN ParseFail
                   ELSE LET e == SkipWs(text, v.pos)
                            o == SetKey(obj, k.val.s, v.val)
                        IN  IF e > Len(text) THEN ParseFail
                            ELSE IF text[e] = "}" THEN ParseOk(o, e + 1)
                            ELSE IF text[e] = ","
                                 THEN ScanMembers(text, SkipWs(text, e + 1), o)
                            ELSE ParseFail

\* JSONArray: i is the place where an element must start
ScanElements(text, i, acc) ==
    LET v == ScanValue(text, i) IN
    IF ~v.ok THEN ParseFail
    ELSE LET e == SkipWs(text, v.pos)
             a == Append(acc, v.val)
         IN  IF e > Len(text) THEN ParseFail
             ELSE IF text[e] = "]" THEN ParseOk(JArr(a), e + 1)
             ELSE IF text[e] = "," THEN ScanElements(text, SkipWs(text, e + 1), a)
             ELSE ParseFail

\* scanner.scan_once
ScanValue(text, i) ==
    IF i > Len(text) THEN ParseFail
    ELSE IF text[i] = DQ THEN ScanString(text, i + 1, <<>>)
    ELSE IF text[i] = "{"
         THEN LET j == SkipWs(text, i + 1) IN
              IF j <= Len(text) /\ text[j] = "}" THEN ParseOk(JObj(<<>>), j + 1)
              ELSE ScanMembers(text, j, JObj(<<>>))
    ELSE IF text[i] = "["
         THEN LET j == SkipWs(text, i + 1) IN
              IF j <= Len(text) /\ text[j] = "]" THEN ParseOk(JArr(<<>>), j + 1)
              ELSE ScanElements(text, j, <<>>)
    ELSE IF StartsWith(text, i, <<"n", "u", "l", "l">>) THEN ParseOk(PyNone, i + 4)
    ELSE IF StartsWith(text, i, <<"t", "r", "u", "e">>) THEN ParseOk(JLit("true"), i + 4)
    ELSE IF StartsWith(text, i, <<"f", "a", "l", "s", "e">>) THEN ParseOk(JLit("false"), i + 5)
    ELSE IF text[i] \in Digits \cup {"-"} THEN ScanNumber(text, i)
    ELSE ParseFail

\* JSONDecoder.decode: one value, then nothing but whitespace
JsonDecode(text) ==
    LET r == ScanValue(text, SkipWs(text, 1)) IN
    IF r.ok /\ SkipWs(text, r.pos) = Len(text) + 1 THEN r ELSE ParseFail

\* What a call returns or raises: err is "" for a normal return, else the
\* name of the exception type.
Returned(v) == [err |-> "", val |-> v]
Raised(e) == [err |-> e, val |-> PyNone]

\* json.loads(x): a TypeError for an x that is not a string
JsonLoads(x) ==
    IF x.t # "str" THEN Raised("TypeError")
    ELSE LET r == JsonDecode(x.s) IN
         IF r.ok THEN Returned(r.val) ELSE Raised("JSONDecodeError")

\* -------------------------------------------------------- safe_json_parse

\* the characters after which a backslash is left alone: [\\nrt"]
KeptEscapes == {BS, "n", "r", "t", DQ}

\* (?<!\\)\\(?![\\nrt"]) matches at i
StrayBackslashAt(text, i) ==
    /\ text[i] = BS
    /\ (i = 1 \/ text[i - 1] # BS)
    /\ (i = Len(text) \/ text[i + 1] \notin KeptEscapes)

\* re.sub(r'(?<!\\)\\(?![\\nrt"])', r'\\\\', text): every match becomes two
\* backslashes
RECURSIVE RepairFrom(_, _)
RepairFrom(text, i) ==
    LET matches == {j \in i .. Len(text) : StrayBackslashAt(text, j)}
    IN  IF matches = {} THEN SubSeq(text, i, Len(text))
        ELSE SubSeq(text, i, Min(matches) - 1) \o <<BS, BS>>
             \o RepairFrom(text, Min(matches) + 1)

Repair(text) == RepairFrom(text, 1)

\* safe_json_parse(response_text): the result, and whether the repair pass ran
SafeJsonParseSteps(x) ==
    LET first == JsonLoads(x) IN
    IF first.err # "JSONDecodeError"
    THEN [res |-> first, repaired |-> FALSE]
    ELSE [res |-> JsonLoads(JStr(Repair(x.s))), repaired |-> TRUE]

safe_json_parse(x) == SafeJsonParseSteps(x).res

\* ------------------------------------------------------------- json.dumps

EscapeChar(c) ==
    CASE c = DQ -> <<BS, DQ>>
      [] c = BS -> <<BS, BS>>
      [] c = NL -> <<BS, "n">>
      [] c = CR -> <<BS, "r">>
      [] c = TAB -> <<BS, "t">>
      [] c = FF -> <<BS, "f">>
      [] c = BSP -> <<BS, "b">>
      [] OTHER -> <<c>>

RECURSIVE EscapeFrom(_, _)
EscapeFrom(s, i) ==
    LET matches == {j \in i .. Len(s) : EscapeChar(s[j]) # <<s[j]>>}
    IN  IF matches = {} THEN SubSeq(s, i, Len(s))
        ELSE SubSeq(s, i, Min(matches) - 1) \o EscapeChar(s[Min(matches)])
             \o EscapeFrom(s, Min(matches) + 1)

\* the text between quotes as it is
DumpStringRaw(s) == <<DQ>> \o s \o <<DQ>>

\* encode_basestring
DumpString(s) == <<DQ>> \o EscapeFrom(s, 1) \o <<DQ>>

RECURSIVE Spaces(_)
Spaces(n) == IF n = 0 THEN <<>> ELSE <<SP>> \o Spaces(n - 1)

\* the indent argument of json.dump in every caller
IndentWidth == 2

NewlineIndent(level) == <<NL>> \o Spaces(IndentWidth * level)

RECURSIVE DumpValue(_, _)
RECURSIVE DumpItems(_, _, _)

\* the members or elements from the i-th on, separated by "," and a new line
DumpItems(v, i, level) ==
    LET one == IF v.t = "obj"
               THEN DumpString(v.items[i].s) \o <<":", SP>>
                    \o DumpValue(v.items[i].items[1], level)
               ELSE DumpValue(v.items[i], level)
    IN  IF i = Len(v.items) THEN one
        ELSE one \o <<",">> \o NewlineIndent(level) \o DumpItems(v, i + 1, level)

\* _make_iterencode with indent
DumpValue(v, level) ==
    CASE v.t = "str" -> DumpString(v.s)
      [] v.t = "num" -> v.s
      [] v.t = "none" -> <<"n", "u", "l", "l">>
      [] v.t = "true" -> <<"t", "r", "u", "e">>
      [] v.t = "false" -> <<"f", "a", "l", "s", "e">>
      [] v.t \in {"arr", "obj"} ->
           LET open == IF v.t = "obj" THEN "{" ELSE "["
               close == IF v.t = "obj" THEN "}" ELSE "]"
           IN  IF v.items = <<>> THEN <<open, close>>
               ELSE <<open>> \o NewlineIndent(level + 1)
                    \o DumpItems(v, 1, level + 1)
                    \o NewlineIndent(level) \o <<close>>

\* json.dumps(v, indent=2), the text json.dump writes to a file
JsonDumps(v) == DumpValue(v, 0)

\* ------------------------------------------------------------------ bounds

\* the largest no_of_episodes a story is created with
MaxEpisodes == 3

\* how many times create_story is invoked on the one story title
MaxRuns == 2

\* ------------------------------------------------------- keys and replies

BodyKey == <<"b", "o", "d", "y">>
TitleKey == <<"t", "i", "t", "l", "e">>
KilledKey == <<"k", "i", "l", "l", "e", "d", "_", "c", "h", "a", "r", "a", "c", "t", "e", "r", "s">>
CurrentKey == <<"c", "u", "r", "r", "e", "n", "t", "_", "c", "h", "a", "r", "a", "c", "t", "e", "r", "s">>
EndedAtKey == <<"e", "n", "d", "e", "d", "_", "a", "t">>
SummaryKey == <<"s", "u", "m", "m", "a", "r", "y", "_", "t", "i", "l", "l", "_", "n", "o", "w">>
TotalEpisodesKey == <<"t", "o", "t", "a", "l", "_", "e", "p", "i", "s", "o", "d", "e", "s">>

RequiredFields == {TitleKey, BodyKey, KilledKey, CurrentKey, EndedAtKey, SummaryKey}

\* the dict without key k
Without(obj, k) == JObj(SelectSeq(obj.items, LAMBDA m : m.s # k))

\* An episode as the prompt of generate_episode asks for it.
FullEpisode ==
    JObj(<<JPair(TitleKey, JStr(<<"T">>)),
           JPair(BodyKey, JStr(<<"B">>)),
           JPair(KilledKey, JArr(<<>>)),
           JPair(CurrentKey, JArr(<<JStr(<<"a">>)>>)),
           JPair(EndedAtKey, JStr(<<"x">>))>>)

\* What the chat completion can hold as message.content when the model is
\* asked for an episode: the episode as JSON text, the same with a field
\* missing or empty or with a killed character still among the current ones,
\* text that is no JSON, JSON that is no object, or no content at all.
EpisodeReplies ==
    { JStr(JsonDumps(FullEpisode)),
      JStr(JsonDumps(SetKey(FullEpisode, KilledKey, JArr(<<JStr(<<"a">>)>>)))),
      JStr(JsonDumps(Without(FullEpisode, EndedAtKey))),
      JStr(JsonDumps(SetKey(FullEpisode, EndedAtKey, JStr(<<>>)))),
      JStr(JsonDumps(Without(FullEpisode, CurrentKey))),
      JStr(JsonDumps(Without(FullEpisode, BodyKey))),
      JStr(<<"{", DQ, "t">>),
      JStr(<<"[", "]">>),
      PyNone }

\* What message.content can hold when the model is asked for a summary.
SummaryReplies == { JStr(<<SP, "S", NL>>), PyNone }

\* A gateway call returns a reply or raises (network, auth, rate limit).
GatewayOutcomes(replies) == {Returned(r) : r \in replies} \cup {Raised("APIError")}

\* ------------------------------------------------------------------- state

VARIABLES
    info_json,        \* story/<title>/info.json: its text, or PyNone when missing
    outlines_json,    \* story/<title>/outlines.json, likewise
    episode_json,     \* story/<title>/<k>.json for every k, likewise
    written_by,       \* for every k, the run of create_story that wrote <k>.json (0: none)
    run,              \* how many times create_story has been invoked
    pc,               \* where create_story stands
    no_of_episodes,   \* its argument
    episode,          \* the index it is working on
    story,            \* the dict generate_episode returned last
    total_summary,    \* the running summary
    last_ended_at,    \* the anchor for the next episode
    error,            \* the exception that left create_story, "" when none
    calls,            \* the gateway requests of the current run, in order
    failed_at,        \* the index at which the run before this one failed (0: it did not)
    callers,          \* for every caller of the outline pipeline, the call it is in
    parse,            \* the call of safe_json_parse under study
    session,          \* st.session_state of one browser session of main.py
    shelf             \* the story directory: for every title, what its folder holds

storyVars == <<run, pc, no_of_episodes, episode, story, total_summary,
               last_ended_at, error, calls, failed_at, written_by, episode_json>>
uiVars == <<session, shelf>>
vars == <<info_json, outlines_json, storyVars, callers, parse, uiVars>>

Indices == 1 .. MaxEpisodes

DigitChars == <<"0", "1", "2", "3", "4", "5", "6", "7", "8", "9">>

\* str(n) for n >= 0
RECURSIVE ToDigits(_)
ToDigits(n) ==
    IF n < 10 THEN <<DigitChars[n + 1]>>
    ELSE ToDigits(n \div 10) \o <<DigitChars[(n % 10) + 1]>>

DigitValue(c) == (CHOOSE i \in DOMAIN DigitChars : DigitChars[i] = c) - 1

\* the int a JSON number without sign stands for
RECURSIVE ToInt(_)
ToInt(ds) ==
    IF ds = <<>> THEN 0
    ELSE 10 * ToInt(SubSeq(ds, 1, Len(ds) - 1)) + DigitValue(ds[Len(ds)])

\* the info dict of create_story
StoryInfo(n) ==
    JObj(<<JPair(TotalEpisodesKey, JNum(ToDigits(n))),
           JPair(TitleKey, JStr(<<"t">>)),
           JPair(<<"i", "n", "i", "t", "i", "a", "l", "_", "c", "h", "a", "r", "a", "c", "t", "e", "r", "s">>, JArr(<<>>)),
           JPair(<<"t", "r", "o", "p", "e">>, PyNone),
           JPair(<<"s", "t", "y", "l", "e">>, JStr(<<"s">>)),
           JPair(<<"t", "o", "n", "e">>, JStr(<<"c">>))>>)

\* the conclusive note from the episode before the last one on
EndingNoteFromPenultimate(episode_number, total_episodes) ==
    IF episode_number + 1 >= total_episodes THEN "conclusive" ELSE "cliffhanger"

\* ending_note of generate_episode
EndingNote(episode_number, total_episodes) ==
    IF episode_number = total_episodes THEN "conclusive" ELSE "cliffhanger"

\* the request generate_episode sends
EpisodeCall(k, n, context, characters, anchor) ==
    [kind |-> "episode", episode_number |-> k, total_episodes |-> n,
     summary_context |-> context, previous_characters |-> characters,
     ended_at |-> anchor, ending |-> EndingNote(k, n),
     text |-> PyNone, previous_summary |-> PyNone]

\* text[:3000] in the prompt of summarize_with_openai
SummaryInputLimit == 3000

Truncate(v, n) ==
    IF Len(v.s) <= n THEN v ELSE JStr(SubSeq(v.s, 1, n))

\* the request summarize_with_openai sends for episode k
SummaryCall(k, n, text, previous) ==
    [kind |-> "summary", episode_number |-> k, total_episodes |-> n,
     summary_context |-> PyNone, previous_characters |-> PyNone,
     ended_at |-> PyNone, ending |-> "",
     text |-> Truncate(text, SummaryInputLimit), previous_summary |-> previous]

\* an absent or empty ended_at keeps the anchor of the episode before
GetEndedAtOrKeep(record) ==
    IF HasKey(record, EndedAtKey) /\ Get(record, EndedAtKey) # JStr(<<>>)
    THEN Get(record, EndedAtKey)
    ELSE last_ended_at

\* story.get("ended_at", None)
GetEndedAt(record) ==
    IF HasKey(record, EndedAtKey) THEN Get(record, EndedAtKey) ELSE PyNone

\* total_summary = summary: the summary of episode k replaces the running one
MergeSummaryReplaces(k, running, summary) == summary

\* the running summary after the summary of episode k was received
MergeSummary(k, running, summary) ==
    IF k = 1 THEN summary ELSE running \o <<NL>> \o summary

\* story["summary_till_now"] = the summary before this episode was merged
WithStaleSummary(record, running) == SetKey(record, SummaryKey, JStr(total_summary))

\* the record is written without its summary
WithoutSummary(record, running) == record

\* story["summary_till_now"] = total_summary
WithSummary(record, running) == SetKey(record, SummaryKey, JStr(running))

\* the run starts after the records the ledger already holds
FirstIndexResumed == Cardinality({k \in Indices : episode_json[k] # PyNone}) + 1

\* the index create_story starts at
FirstIndex == 1

\* the loop steps by two
NextIndexSkips(k) == k + 2

\* range(2, no_of_episodes + 1): the index after k
NextIndex(k) == k + 1

\* range(2, no_of_episodes + 2)
LoopRunsOneMore(k, n) == k < n + 1

\* the loop ends one index early
LoopStopsEarly(k, n) == k + 1 < n

\* range(2, no_of_episodes + 1): whether an index follows k
LoopContinues(k, n) == k < n

\* the entries of list l that are not in list without
ListWithout(l, without) ==
    JArr(SelectSeq(l.items, LAMBDA x : \A i \in DOMAIN without.items : without.items[i] # x))

\* previous_characters: current_characters less the killed_characters
PreviousCharactersAlive(record) ==
    IF HasKey(record, KilledKey) /\ Get(record, KilledKey).t = "arr"
       /\ Get(record, CurrentKey).t = "arr"
    THEN ListWithout(Get(record, CurrentKey), Get(record, KilledKey))
    ELSE Get(record, CurrentKey)

\* previous_characters=story["current_characters"]
PreviousCharacters(record) == Get(record, CurrentKey)

\* v[key] on whatever json.loads returned: "" when it yields a value
SubscriptError(v, key) ==
    IF v.t # "obj" THEN "TypeError"
    ELSE IF key \notin Keys(v) THEN "KeyError"
    ELSE ""

\* ------------------------------------------------------- outline pipeline

\* who may be inside a call of outlines.py
Callers == {"a", "b"}

NoRequest == [previous_outlines |-> PyNone, current |-> PyNone]
NoReply == [err |-> "-", val |-> PyNone]

\* The locals of a call of generate_story_outline, improve_outline or
\* flow_maintainer, and how it ended.  before, reply, revised and wrote are
\* kept for the properties: the text of outlines.json when the call began,
\* the last gateway outcome, the replies the loop of flow_maintainer has
\* received, and whether the call has written outlines.json.
IdleCaller ==
    [op |-> "none", at |-> "idle", arg |-> 0, ep |-> 0,
     info |-> PyNone, loaded |-> PyNone, outlines |-> PyNone,
     request |-> NoRequest, reply |-> NoReply,
     result |-> PyNone, err |-> "", revised |-> <<>>, before |-> PyNone,
     wrote |-> FALSE]

ToneKey == <<"t", "o", "n", "e">>
StyleKey == <<"s", "t", "y", "l", "e">>
TropeKey == <<"t", "r", "o", "p", "e">>

\* the info dict of generate_story_outline
OutlineInfo(n) ==
    JObj(<<JPair(TotalEpisodesKey, JNum(ToDigits(n))),
           JPair(TitleKey, JStr(<<"t">>)),
           JPair(<<"i", "n", "i", "t", "i", "a", "l", "_", "c", "h", "a", "r", "a", "c", "t", "e", "r", "s">>, JArr(<<>>)),
           JPair(TropeKey, PyNone),
           JPair(StyleKey, JStr(<<"s">>)),
           JPair(ToneKey, JStr(<<"c">>)),
           JPair(<<"r", "e", "g", "i", "o", "n", "a", "l", "_", "s", "e", "t", "t", "i", "n", "g">>, PyNone)>>)

\* f"Outline for episode {ep} could not be generated. Please try again."
Placeholder(ep) ==
    <<"O", "u", "t", "l", "i", "n", "e", " ", "f", "o", "r", " ", "e", "p", "i", "s", "o", "d", "e", " ">>
    \o ToDigits(ep) \o
    <<" ", "c", "o", "u", "l", "d", " ", "n", "o", "t", " ", "b", "e", " ", "g", "e", "n", "e", "r", "a", "t", "e", "d", ".", " ", "P", "l", "e", "a", "s", "e", " ", "t", "r", "y", " ", "a", "g", "a", "i", "n", ".">>

\* a fallback over range(1, total_episodes)
FallbackOutlinesShort(total_episodes) ==
    JObj([ep \in 1 .. (total_episodes - 1) |-> JPair(ToDigits(ep), JStr(Placeholder(ep)))])

\* the fallback of generate_outlines: range(1, total_episodes + 1)
FallbackOutlines(total_episodes) ==
    JObj([ep \in 1 .. total_episodes |-> JPair(ToDigits(ep), JStr(Placeholder(ep)))])

\* the places of character c in text
Places(text, c) == {i \in DOMAIN text : text[i] = c}

\* re.search(r'\{.*\}', result, re.DOTALL): the span from the first "{" to the
\* last "}" when there is one, else the text as it is
ExtractJson(text) ==
    LET opens == Places(text, "{")
        closes == Places(text, "}")
    IN  IF opens # {} /\ closes # {} /\ Min(opens) < Max(closes)
        THEN SubSeq(text, Min(opens), Max(closes))
        ELSE text

\* generate_outlines from the reply of the gateway on: what it returns or raises
generate_outlines(content, total_episodes) ==
    IF content.t # "str" THEN Raised("TypeError")
    ELSE LET parsed == safe_json_parse(JStr(ExtractJson(content.s))) IN
         IF parsed.err = "" THEN parsed
         ELSE Returned(FallbackOutlines(total_episodes))

\* open(...) and json.load(f)
LoadJson(file) ==
    IF file = PyNone THEN Raised("FileNotFoundError") ELSE JsonLoads(file)

\* the first error of outlines[str(ep)] for ep in from..to, "" when none
RECURSIVE LookupError(_, _, _)
LookupError(outlines, from, to) ==
    IF from > to THEN ""
    ELSE IF SubscriptError(outlines, ToDigits(from)) # ""
    THEN SubscriptError(outlines, ToDigits(from))
    ELSE LookupError(outlines, from + 1, to)

\* previous_outlines: the entries of range(1, ep), which outlines has
PreviousOutlines(outlines, ep) ==
    JObj([i \in 1 .. (ep - 1) |-> JPair(ToDigits(i), Get(outlines, ToDigits(i)))])

\* the first error of the info[...] lookups of a prompt, "" when none
InfoError(info) ==
    LET missing == {k \in {TotalEpisodesKey, ToneKey, StyleKey, TropeKey} :
                        SubscriptError(info, k) # ""}
    IN  IF missing = {} THEN "" ELSE SubscriptError(info, CHOOSE k \in missing : TRUE)

\* what building the prompt for episode ep raises, "" when nothing
PromptError(info, outlines, ep) ==
    IF LookupError(outlines, 1, ep - 1) # "" THEN LookupError(outlines, 1, ep - 1)
    ELSE IF InfoError(info) # "" THEN InfoError(info)
    ELSE SubscriptError(outlines, ToDigits(ep))

\* the request for episode ep
OutlineRequest(outlines, ep) ==
    [previous_outlines |-> PreviousOutlines(outlines, ep),
     current |-> Get(outlines, ToDigits(ep))]

\* range(modified_episode, ...)
FlowFirstAtModified(modified_episode) == modified_episode

\* range(modified_episode + 1, total_episodes): the last episode is left out
FlowStopsBeforeLast(ep, total_episodes) == ep + 1 < total_episodes

\* for ep in range(modified_episode + 1, total_episodes + 1): the first
\* episode revised, the one after ep, and whether there is one after ep
FlowFirst(modified_episode) == modified_episode + 1
FlowNext(ep) == ep + 1
FlowContinues(ep, total_episodes) == ep < total_episodes

\* if modified_episode > total_episodes
FlowNothingToDoBeyond(modified_episode, total_episodes) == modified_episode > total_episodes

\* if modified_episode >= total_episodes: return outlines
FlowNothingToDo(modified_episode, total_episodes) == modified_episode >= total_episodes

\* json.dump(outlines, f, indent=2) inside the loop
RecordSavedInLoop(record, updated) == JStr(JsonDumps(updated))

\* outlines.json after a round of the loop of flow_maintainer that is not the
\* last: the json.dump stands after the loop, the record is as it was
RecordInLoop(record, updated) == record

\* outlines = {str(ep): text}
AssignOutlineAlone(outlines, ep, text) == JObj(<<JPair(ToDigits(ep), JStr(text))>>)

\* outlines.setdefault(str(ep), text): an entry that exists is kept
AssignOutlineIfAbsent(outlines, ep, text) ==
    IF HasKey(outlines, ToDigits(ep)) THEN outlines
    ELSE SetKey(outlines, ToDigits(ep), JStr(text))

\* outlines[str(ep + 1)] = text
AssignOutlineAfter(outlines, ep, text) == SetKey(outlines, ToDigits(ep + 1), JStr(text))

\* the record is read again right before the entry is assigned
AssignOutlineOnFile(outlines, ep, text) ==
    SetKey(JsonLoads(outlines_json).val, ToDigits(ep), JStr(text))

\* outlines[str(ep)] = text
AssignOutline(outlines, ep, text) == SetKey(outlines, ToDigits(ep), JStr(text))

\* previous_outlines read from the map as it was loaded
FlowContextStale(updated, loaded) == loaded

\* the dict flow_maintainer reads the context of the next episode from: the
\* one it has been updating
FlowContextSource(updated, loaded) == updated

\* ------------------------------------------------------------ the main UI

\* the titles a user gives to stories
Titles == {"s", "t"}

\* st.session_state.selected_story = None
NoStory == "None"

\* the session state a new session is set up with
NoSession ==
    [create_mode |-> FALSE, outline_mode |-> FALSE, selected_story |-> NoStory,
     deleted_stories |-> {}]

\* What the folder story/<title> holds: whether it exists, and whether it has
\* info.json, outlines.json and any other .json file (an episode record).
NoFolder == [dir |-> FALSE, info |-> FALSE, outlines |-> FALSE, episodes |-> FALSE]

\* the stories of the sidebar: the folders of STORY_DIR less the deleted ones
Stories == {s \in Titles : shelf[s].dir /\ s \notin session.deleted_stories}

\* The folder after generate_story_outline: it is made, info.json is written,
\* and outlines.json is written when generate_outlines returns.
OutlinedFolder(folder, returned) ==
    [folder EXCEPT !.dir = TRUE, !.info = TRUE, !.outlines = @ \/ returned]

\* how a run of the episode loop over the outlines ends: with every record
\* written, or with an error at the first index or at a later one
FinalizeOutcomes == {"done", "failed at 1", "failed later"}

\* The folder after finalize_story: the episode loop leaves the records of
\* the indices before the one it failed at.
FinalizedFolder(folder, outcome) ==
    [folder EXCEPT !.episodes = @ \/ outcome # "failed at 1"]

\* What the outline view of a script run raises or reports: "" when it shows
\* the outlines.  os.path.join(STORY_DIR, None) raises outside the try; a
\* record that cannot be opened is reported by st.error.
OutlineViewError ==
    IF session.selected_story = NoStory THEN "TypeError"
    ELSE IF ~(shelf[session.selected_story].info /\ shelf[session.selected_story].outlines)
    THEN "Could not load outlines"
    ELSE ""

\* A call of safe_json_parse: its argument, where it stands, the text after
\* the repair pass, what it returned or raised, and how many times it has
\* called json.loads and re.sub.  kind and record say how the argument was
\* made, for the properties.
NoParse ==
    [response_text |-> PyNone, at |-> "none", fixed |-> <<>>, result |-> NoReply,
     loads |-> 0, subs |-> 0, kind |-> "none", record |-> PyNone]

Init ==
    /\ info_json = PyNone
    /\ outlines_json = PyNone
    /\ episode_json = [k \in Indices |-> PyNone]
    /\ written_by = [k \in Indices |-> 0]
    /\ run = 0
    /\ pc = "idle"
    /\ no_of_episodes = 0
    /\ episode = 0
    /\ story = PyNone
    /\ total_summary = <<>>
    /\ last_ended_at = PyNone
    /\ error = ""
    /\ calls = <<>>
    /\ failed_at = 0
    /\ callers = [c \in Callers |-> IdleCaller]
    /\ parse = NoParse
    /\ session = NoSession
    /\ shelf = [s \in Titles |-> NoFolder]

\* the exception is swallowed
AbortSilently(e) ==
    /\ pc' = "failed"
    /\ error' = ""

\* create_story raises e
Abort(e) ==
    /\ pc' = "failed"
    /\ error' = e

\* create_story up to its first gateway call: the info record is written and
\* the cursor starts empty
CreateStory(n) ==
    /\ pc \in {"idle", "done", "failed"}
    /\ run' = run + 1
    /\ no_of_episodes' = n
    /\ info_json' = JStr(JsonDumps(StoryInfo(n)))
    /\ total_summary' = <<>>
    /\ last_ended_at' = PyNone
    /\ story' = PyNone
    /\ episode' = FirstIndex
    /\ pc' = "generate"
    /\ error' = ""
    /\ calls' = <<>>
    /\ failed_at' = IF pc = "failed" THEN episode ELSE 0
    /\ UNCHANGED <<outlines_json, episode_json, written_by, callers, parse, uiVars>>

\* generate_episode for the current index: the arguments are evaluated, the
\* gateway is called and its reply goes through safe_json_parse
GenerateEpisode(outcome) ==
    /\ pc = "generate"
    /\ UNCHANGED <<info_json, outlines_json, episode_json, written_by, run,
                   no_of_episodes, episode, total_summary, last_ended_at, failed_at,
                   callers, parse, uiVars>>
    /\ IF episode > 1 /\ SubscriptError(story, CurrentKey) # ""
       THEN /\ Abort(SubscriptError(story, CurrentKey))
            /\ UNCHANGED <<story, calls>>
       ELSE LET request ==
                    IF episode = 1
                    THEN EpisodeCall(1, no_of_episodes, PyNone, PyNone, last_ended_at)
                    ELSE EpisodeCall(episode, no_of_episodes, JStr(total_summary),
                                     PreviousCharacters(story), last_ended_at)
                parsed == safe_json_parse(outcome.val)
            IN  /\ calls' = Append(calls, request)
                /\ IF outcome.err # ""
                   THEN Abort(outcome.err) /\ UNCHANGED story
                   ELSE IF parsed.err # ""
                   THEN Abort(parsed.err) /\ UNCHANGED story
                   ELSE /\ story' = parsed.val
                        /\ pc' = "summarize"
                        /\ UNCHANGED error

\* The rest of the loop body: the body is summarized, the cursor is updated and
\* the record is written; then the loop goes on to the next index or ends.
MergeEpisode(outcome) ==
    /\ pc = "summarize"
    /\ UNCHANGED <<info_json, outlines_json, run, no_of_episodes, failed_at, callers, parse, uiVars>>
    /\ IF SubscriptError(story, BodyKey) # ""
       THEN /\ Abort(SubscriptError(story, BodyKey))
            /\ UNCHANGED <<story, calls, total_summary, last_ended_at, episode,
                           episode_json, written_by>>
       ELSE IF Get(story, BodyKey).t \notin {"str", "arr"}
       THEN /\ Abort("TypeError")
            /\ UNCHANGED <<story, calls, total_summary, last_ended_at, episode,
                           episode_json, written_by>>
       ELSE /\ calls' = Append(calls, SummaryCall(episode, no_of_episodes,
                                                  Get(story, BodyKey), PyNone))
            /\ IF outcome.err # "" \/ outcome.val.t # "str"
               THEN /\ Abort(IF outcome.err # "" THEN outcome.err ELSE "AttributeError")
                    /\ UNCHANGED <<story, total_summary, last_ended_at, episode,
                                   episode_json, written_by>>
               ELSE LET summary == Strip(outcome.val.s)
                        running == MergeSummary(episode, total_summary, summary)
                        record == WithSummary(story, running)
                    IN  /\ total_summary' = running
                        /\ story' = record
                        /\ last_ended_at' = GetEndedAt(record)
                        /\ episode_json' = [episode_json EXCEPT
                                              ![episode] = JStr(JsonDumps(record))]
                        /\ written_by' = [written_by EXCEPT ![episode] = run]
                        /\ IF LoopContinues(episode, no_of_episodes)
                           THEN /\ episode' = NextIndex(episode)
                                /\ pc' = "generate"
                           ELSE /\ pc' = "done"
                                /\ UNCHANGED episode
                        /\ UNCHANGED error

\* One invocation of create_story on a fresh story title, with every reply
\* the model can give.
NextStory ==
    \/ \E n \in Indices : run = 0 /\ CreateStory(n)
    \/ \E outcome \in GatewayOutcomes(EpisodeReplies) : GenerateEpisode(outcome)
    \/ \E outcome \in GatewayOutcomes(SummaryReplies) : MergeEpisode(outcome)

SpecStory == Init /\ [][NextStory]_vars

\* the replies of the invocations that follow one another on the same title:
\* an episode, or text that is no JSON
RerunEpisodeReplies ==
    { JStr(JsonDumps(FullEpisode)), JStr(<<"{", DQ, "t">>) }

\* create_story invoked again and again on the same story title, whenever it
\* is not running.
NextRerun ==
    \/ \E n \in Indices : run < MaxRuns /\ CreateStory(n)
    \/ \E outcome \in GatewayOutcomes(RerunEpisodeReplies) : GenerateEpisode(outcome)
    \/ \E outcome \in GatewayOutcomes(SummaryReplies) : MergeEpisode(outcome)

SpecRerun == Init /\ [][NextRerun]_vars

\* An outline map as the prompt of generate_outlines asks for it, for n
\* episodes.
OutlineMap(n) ==
    JObj([i \in 1 .. n |-> JPair(ToDigits(i), JStr(<<"o", DigitChars[i + 1]>>))])

\* What message.content can hold when the model is asked for the outlines of
\* a story: the map for some number of episodes (the one asked for or not) as
\* JSON text, bare or with prose around it; a map with a stray backslash in a
\* value; JSON that is no object; text that is no JSON; nothing.
OutlineReplies ==
    {JStr(JsonDumps(OutlineMap(n))) : n \in Indices}
    \cup {JStr(<<"O", "K", ":", SP>> \o JsonDumps(OutlineMap(n)) \o <<SP, "!">>) : n \in Indices}
    \cup { JStr(<<"{", DQ, "1", DQ, ":", DQ, "a", BS, "q", DQ, "}">>),
           JStr(<<"[", "]">>),
           JStr(<<"{", DQ, "1", DQ, ":", SP>>),
           JStr(<<"n", "o", SP, "{", "x", "}">>),
           JStr(<<>>),
           PyNone }

\* What message.content can hold when the model is asked to revise an outline.
RevisionReplies == { JStr(<<SP, "p", NL>>), PyNone }

\* info['total_episodes']
TotalEpisodes(info) == ToInt(Get(info, TotalEpisodesKey).s)

NotInCall(c) == callers[c].at \in {"idle", "returned", "raised"}

\* the call of caller c ends with exception e; reply is the gateway's outcome
CallRaised(c, e, reply) ==
    callers' = [callers EXCEPT ![c].at = "raised", ![c].err = e, ![c].reply = reply]

\* generate_story_outline up to the gateway call of generate_outlines: the
\* info record is written
GenerateStoryOutlineBegin(c, n) ==
    /\ NotInCall(c)
    /\ info_json' = JStr(JsonDumps(OutlineInfo(n)))
    /\ callers' = [callers EXCEPT ![c] =
                     [IdleCaller EXCEPT !.op = "generate_story_outline", !.at = "call",
                                        !.arg = n, !.before = outlines_json]]
    /\ UNCHANGED <<outlines_json, storyVars, parse, uiVars>>

\* the rest of generate_story_outline: generate_outlines returns or raises,
\* and what it returns is written to outlines.json
GenerateStoryOutlineEnd(c, outcome) ==
    /\ callers[c].op = "generate_story_outline"
    /\ callers[c].at = "call"
    /\ \E res \in {IF outcome.err # "" THEN Raised(outcome.err)
                   ELSE generate_outlines(outcome.val, callers[c].arg)} :
           IF res.err # ""
           THEN /\ CallRaised(c, res.err, outcome)
                /\ UNCHANGED outlines_json
           ELSE /\ outlines_json' = JStr(JsonDumps(res.val))
                /\ callers' = [callers EXCEPT ![c].at = "returned", ![c].reply = outcome,
                                              ![c].wrote = TRUE,
                                              ![c].outlines = res.val, ![c].result = res.val]
    /\ UNCHANGED <<info_json, storyVars, parse, uiVars>>

\* improve_outline up to its gateway call: both records are loaded and the
\* prompt is built
ImproveOutlineBegin(c, episode_num) ==
    /\ NotInCall(c)
    /\ \E info \in {LoadJson(info_json)}, outl \in {LoadJson(outlines_json)} :
       \E e \in {IF info.err # "" THEN info.err
                 ELSE IF outl.err # "" THEN outl.err
                 ELSE PromptError(info.val, outl.val, episode_num)} :
       LET me == [IdleCaller EXCEPT !.op = "improve_outline", !.arg = episode_num,
                                    !.ep = episode_num, !.before = outlines_json]
       IN  callers' = [callers EXCEPT ![c] =
              IF e # "" THEN [me EXCEPT !.at = "raised", !.err = e]
              ELSE [me EXCEPT !.at = "call", !.info = info.val, !.loaded = outl.val,
                              !.outlines = outl.val,
                              !.request = OutlineRequest(outl.val, episode_num)]]
    /\ UNCHANGED <<info_json, outlines_json, storyVars, parse, uiVars>>

\* the rest of improve_outline: the reply, stripped, replaces the entry and
\* the whole map is written back
ImproveOutlineEnd(c, outcome) ==
    /\ callers[c].op = "improve_outline"
    /\ callers[c].at = "call"
    /\ IF outcome.err # "" \/ outcome.val.t # "str"
       THEN /\ CallRaised(c, IF outcome.err # "" THEN outcome.err ELSE "AttributeError",
                          outcome)
            /\ UNCHANGED outlines_json
       ELSE \E improved \in {Strip(outcome.val.s)} :
            \E updated \in {AssignOutline(callers[c].outlines, callers[c].arg, improved)} :
                /\ outlines_json' = JStr(JsonDumps(updated))
                /\ callers' = [callers EXCEPT ![c].at = "returned", ![c].reply = outcome,
                                              ![c].wrote = TRUE,
                                              ![c].outlines = updated,
                                              ![c].result = JStr(improved)]
    /\ UNCHANGED <<info_json, storyVars, parse, uiVars>>

\* flow_maintainer up to its first gateway call, or to its return when the
\* modified episode is the last one.  (A range(modified_episode + 1,
\* total_episodes + 1) that is empty would run no round of the loop and go on
\* to the write after it; the early return leaves no such case.)
FlowMaintainerBegin(c, modified_episode) ==
    /\ NotInCall(c)
    /\ \E info \in {LoadJson(info_json)}, outl \in {LoadJson(outlines_json)} :
       \E first \in {FlowFirst(modified_episode)} :
       \E e \in {IF info.err # "" THEN info.err
                 ELSE IF outl.err # "" THEN outl.err
                 ELSE IF SubscriptError(info.val, TotalEpisodesKey) # ""
                 THEN SubscriptError(info.val, TotalEpisodesKey)
                 ELSE IF FlowNothingToDo(modified_episode, TotalEpisodes(info.val)) THEN ""
                 ELSE IF first > TotalEpisodes(info.val) THEN ""
                 ELSE PromptError(info.val, outl.val, first)} :
       LET me == [IdleCaller EXCEPT !.op = "flow_maintainer", !.arg = modified_episode,
                                    !.before = outlines_json]
           back == [me EXCEPT !.at = "returned", !.info = info.val, !.loaded = outl.val,
                              !.outlines = outl.val, !.result = outl.val]
       IN  IF e # ""
           THEN /\ callers' = [callers EXCEPT ![c] = [me EXCEPT !.at = "raised", !.err = e]]
                /\ UNCHANGED outlines_json
           ELSE IF FlowNothingToDo(modified_episode, TotalEpisodes(info.val))
           THEN /\ callers' = [callers EXCEPT ![c] = back]
                /\ UNCHANGED outlines_json
           ELSE IF first > TotalEpisodes(info.val)
           THEN /\ callers' = [callers EXCEPT ![c] = [back EXCEPT !.wrote = TRUE]]
                /\ outlines_json' = JStr(JsonDumps(outl.val))
           ELSE /\ callers' = [callers EXCEPT ![c] =
                      [me EXCEPT !.at = "call", !.ep = first, !.info = info.val,
                                 !.loaded = outl.val, !.outlines = outl.val,
                                 !.request = OutlineRequest(outl.val, first)]]
                /\ UNCHANGED outlines_json
    /\ UNCHANGED <<info_json, storyVars, parse, uiVars>>

\* One round of the loop of flow_maintainer from the reply on: the reply,
\* stripped, replaces entry ep; then the prompt of the next episode is built,
\* or after the last episode the map is written back and returned.
FlowMaintainerStep(c, outcome) ==
    /\ callers[c].op = "flow_maintainer"
    /\ callers[c].at = "call"
    /\ IF outcome.err # "" \/ outcome.val.t # "str"
       THEN /\ CallRaised(c, IF outcome.err # "" THEN outcome.err ELSE "AttributeError",
                          outcome)
            /\ UNCHANGED outlines_json
       ELSE \E me \in {callers[c]} :
            \E updated \in {AssignOutline(me.outlines, me.ep, Strip(outcome.val.s))} :
            \E seen \in {[me EXCEPT !.reply = outcome, !.outlines = updated,
                                    !.revised = Append(me.revised,
                                                       [ep |-> me.ep, text |-> outcome.val])]} :
            IF FlowContinues(me.ep, TotalEpisodes(me.info))
            THEN \E next \in {FlowNext(me.ep)} :
                 \E e \in {PromptError(me.info, updated, next)} :
                 /\ outlines_json' = RecordInLoop(outlines_json, updated)
                 /\ callers' = [callers EXCEPT ![c] =
                       IF e # "" THEN [seen EXCEPT !.at = "raised", !.err = e]
                       ELSE [seen EXCEPT !.ep = next,
                                         !.request =
                                            [previous_outlines |->
                                                 PreviousOutlines(
                                                     FlowContextSource(updated, me.loaded),
                                                     next),
                                             current |-> Get(updated, ToDigits(next))]]]
            ELSE /\ outlines_json' = JStr(JsonDumps(updated))
                 /\ callers' = [callers EXCEPT ![c] =
                                   [seen EXCEPT !.at = "returned", !.result = updated,
                                                !.wrote = TRUE]]
    /\ UNCHANGED <<info_json, storyVars, parse, uiVars>>

\* generate_story_outline alone, over every reply of the model
NextGenerate ==
    \/ \E n \in Indices : GenerateStoryOutlineBegin("a", n)
    \/ \E outcome \in GatewayOutcomes(OutlineReplies) : GenerateStoryOutlineEnd("a", outcome)

SpecGenerate == Init /\ [][NextGenerate]_vars

\* the replies to generate_story_outline that leave a record for the other
\* operations to work on: a map for some number of episodes, or JSON that is
\* no object
StoredOutlineReplies ==
    {JStr(JsonDumps(OutlineMap(n))) : n \in Indices} \cup {JStr(<<"[", "]">>)}

\* One caller at a time uses the outline pipeline on the story.
NextOutline ==
    \/ \E n \in Indices : GenerateStoryOutlineBegin("a", n)
    \/ \E outcome \in GatewayOutcomes(StoredOutlineReplies) :
          GenerateStoryOutlineEnd("a", outcome)
    \/ \E k \in Indices : ImproveOutlineBegin("a", k)
    \/ \E outcome \in GatewayOutcomes(RevisionReplies) : ImproveOutlineEnd("a", outcome)
    \/ \E m \in Indices : FlowMaintainerBegin("a", m)
    \/ \E outcome \in GatewayOutcomes(RevisionReplies) : FlowMaintainerStep("a", outcome)

SpecOutline == Init /\ [][NextOutline]_vars

\* A story whose outlines were generated: the info record for n episodes and
\* the outline map the prompt asks for, as generate_story_outline writes them.
InitRace ==
    /\ \E n \in Indices :
          /\ info_json = JStr(JsonDumps(OutlineInfo(n)))
          /\ outlines_json = JStr(JsonDumps(OutlineMap(n)))
    /\ episode_json = [k \in Indices |-> PyNone]
    /\ written_by = [k \in Indices |-> 0]
    /\ run = 0
    /\ pc = "idle"
    /\ no_of_episodes = 0
    /\ episode = 0
    /\ story = PyNone
    /\ total_summary = <<>>
    /\ last_ended_at = PyNone
    /\ error = ""
    /\ calls = <<>>
    /\ failed_at = 0
    /\ callers = [c \in Callers |-> IdleCaller]
    /\ parse = NoParse
    /\ session = NoSession
    /\ shelf = [s \in Titles |-> NoFolder]

\* what the model answers to the two calls
RaceReplies == { JStr(<<SP, "p", NL>>) }

\* Two callers (two sessions of the UI, two processes) each make one call of
\* improve_outline or flow_maintainer on the story; the steps of the two
\* calls interleave in any order.  Nothing in outlines.py locks the files.
NextRace ==
    \/ \E c \in Callers, k \in Indices :
          callers[c].at = "idle" /\ ImproveOutlineBegin(c, k)
    \/ \E c \in Callers, outcome \in GatewayOutcomes(RaceReplies) :
          ImproveOutlineEnd(c, outcome)
    \/ \E c \in Callers, m \in Indices :
          callers[c].at = "idle" /\ FlowMaintainerBegin(c, m)
    \/ \E c \in Callers, outcome \in GatewayOutcomes(RaceReplies) :
          FlowMaintainerStep(c, outcome)

SpecRace == InitRace /\ [][NextRace]_vars

\* replies to generate_episode that safe_json_parse decodes: the episode, the
\* same with a field missing, JSON that is no object; and the replies to
\* summarize_with_openai that are text
ParseableEpisodeReplies ==
    { JStr(JsonDumps(FullEpisode)),
      JStr(JsonDumps(Without(FullEpisode, EndedAtKey))),
      JStr(JsonDumps(Without(FullEpisode, CurrentKey))),
      JStr(JsonDumps(Without(FullEpisode, BodyKey))),
      JStr(<<"[", "]">>) }
SummaryTexts == {r \in SummaryReplies : r.t = "str"}

\* One invocation of create_story on a fresh story title during which every
\* gateway call returns, and what generate_episode gets can be decoded.
NextParseable ==
    \/ \E n \in Indices : run = 0 /\ CreateStory(n)
    \/ \E r \in ParseableEpisodeReplies : GenerateEpisode(Returned(r))
    \/ \E r \in SummaryTexts : MergeEpisode(Returned(r))

\* create_story is straight-line code around a for loop: a step that can be
\* taken is taken
SpecParseable == Init /\ [][NextParseable]_vars /\ WF_vars(NextParseable)

\* ---------------------------------------------------------- safe_json_parse

\* the longest text of a string field in the records that are encoded
MaxTextLen == 2

\* the texts of string fields: letters, a backslash, a quote, a newline
FieldChars == {"a", BS, DQ, NL}
FieldTexts == UNION {[1 .. n -> FieldChars] : n \in 0 .. MaxTextLen}

\* Records as create_story persists them: a string field and a list of
\* strings, over every text; and the episode of the prompt.
ValidRecords ==
    {JObj(<<JPair(BodyKey, JStr(s)), JPair(CurrentKey, l)>>) :
        s \in FieldTexts, l \in {JArr(<<>>), JArr(<<JStr(<<"n", BS>>), JStr(<<DQ>>)>>)}}
    \cup {FullEpisode}

\* {"a": "<contents>"}
OneField(contents) ==
    <<"{", DQ, "a", DQ, ":", SP, DQ>> \o contents \o <<DQ, "}">>

\* JSON but for one backslash that no escape character follows, in a string
\* value: at its start, after a letter, after an escape, after an escaped
\* backslash; at its end or before more text
StrayBackslashTexts ==
    {OneField(before \o <<BS, x>> \o after) :
        before \in {<<>>, <<"a">>, <<BS, "n">>, <<BS, DQ>>, <<BS, BS>>},
        x \in {"q", SP},
        after \in {<<>>, <<"a">>, <<BS, BS>>}}

\* JSON but for a brace too few or too many
UnbalancedTexts ==
    { <<"{", DQ, "a", DQ, ":", SP, DQ, "b", DQ>>,
      <<"{", DQ, "a", DQ, ":", SP, DQ, "b", DQ, "}", "}">>,
      <<"{", "{", DQ, "a", DQ, ":", SP, DQ, "b", DQ, "}">>,
      <<"{", DQ, "a", DQ, ":", SP, "{", DQ, "b", DQ, ":", SP, DQ, "c", DQ, "}">> }

\* message.content that is no text: None, a number
NonTexts == {PyNone, JNum(<<"5">>)}

\* the arguments safe_json_parse is studied on
ParseArguments ==
    {[NoParse EXCEPT !.response_text = JStr(JsonDumps(x)), !.kind = "encoded",
                     !.record = x] : x \in ValidRecords}
    \cup {[NoParse EXCEPT !.response_text = JStr(s), !.kind = "stray"] :
              s \in StrayBackslashTexts}
    \cup {[NoParse EXCEPT !.response_text = JStr(s), !.kind = "unbalanced"] :
              s \in UnbalancedTexts}
    \cup {[NoParse EXCEPT !.response_text = JStr(s), !.kind = "other"] :
              s \in {<<>>, <<"[", "]">>, <<"n", "o">>}}
    \cup {[NoParse EXCEPT !.response_text = x, !.kind = "other"] : x \in NonTexts}

\* safe_json_parse is about to be called on one of the arguments
InitParse ==
    /\ info_json = PyNone
    /\ outlines_json = PyNone
    /\ episode_json = [k \in Indices |-> PyNone]
    /\ written_by = [k \in Indices |-> 0]
    /\ run = 0
    /\ pc = "idle"
    /\ no_of_episodes = 0
    /\ episode = 0
    /\ story = PyNone
    /\ total_summary = <<>>
    /\ last_ended_at = PyNone
    /\ error = ""
    /\ calls = <<>>
    /\ failed_at = 0
    /\ callers = [c \in Callers |-> IdleCaller]
    /\ \E a \in ParseArguments : parse = [a EXCEPT !.at = "direct"]
    /\ session = NoSession
    /\ shelf = [s \in Titles |-> NoFolder]

\* except json.JSONDecodeError
CaughtFirst(err) == err = "JSONDecodeError"

\* the first try block: json.loads(response_text); a JSONDecodeError is
\* caught and the repair pass is applied, any other exception leaves
ParseDirect ==
    /\ parse.at = "direct"
    /\ \E first \in {JsonLoads(parse.response_text)} :
         parse' = IF first.err = ""
                  THEN [parse EXCEPT !.at = "returned", !.result = first,
                                     !.loads = @ + 1]
                  ELSE IF CaughtFirst(first.err)
                  THEN [parse EXCEPT !.at = "repaired", !.loads = @ + 1, !.subs = @ + 1,
                                     !.fixed = Repair(parse.response_text.s)]
                  ELSE [parse EXCEPT !.at = "raised", !.result = first,
                                     !.loads = @ + 1]
    /\ UNCHANGED <<info_json, outlines_json, storyVars, callers, uiVars>>

\* the second try block: json.loads(fixed); whatever it raises is raised again
ParseRepaired ==
    /\ parse.at = "repaired"
    /\ \E second \in {JsonLoads(JStr(parse.fixed))} :
         parse' = [parse EXCEPT !.at = IF second.err = "" THEN "returned" ELSE "raised",
                                !.result = second, !.loads = @ + 1]
    /\ UNCHANGED <<info_json, outlines_json, storyVars, callers, uiVars>>

NextParse == ParseDirect \/ ParseRepaired

SpecParse == InitParse /\ [][NextParse]_vars

\* ------------------------------------------------------ handlers of main.py
\* Every step is one run of the script in which one widget was used.

\* the "Create Story" button of the sidebar
CreateStoryClick ==
    /\ session' = [session EXCEPT !.create_mode = TRUE, !.outline_mode = FALSE,
                                  !.selected_story = NoStory]
    /\ UNCHANGED <<shelf, info_json, outlines_json, storyVars, callers, parse>>

\* the button of story s in the sidebar: the story is selected; with episode
\* files the episodes view is shown, else with outlines.json the outline
\* view, else outline_mode keeps the value it has
StoryClick(s) ==
    /\ s \in Stories
    /\ session' = [session EXCEPT
                     !.selected_story = s,
                     !.create_mode = FALSE,
                     !.outline_mode = IF shelf[s].episodes THEN FALSE
                                      ELSE IF shelf[s].outlines THEN TRUE
                                      ELSE @]
    /\ UNCHANGED <<shelf, info_json, outlines_json, storyVars, callers, parse>>

\* the delete button of story s in the sidebar
DeleteClick(s) ==
    /\ s \in Stories
    /\ session' = [session EXCEPT
                     !.deleted_stories = @ \cup {s},
                     !.selected_story = IF @ = s THEN NoStory ELSE @]
    /\ UNCHANGED <<shelf, info_json, outlines_json, storyVars, callers, parse>>

\* "Generate Outline" of the create form: generate_story_outline runs on the
\* title; when it returns the story is selected in outline mode, when it
\* raises the script run ends with the session as it was
SubmitCreateForm(title, returned) ==
    /\ session.create_mode
    /\ shelf' = [shelf EXCEPT ![title] = OutlinedFolder(@, returned)]
    /\ session' = IF returned
                  THEN [session EXCEPT !.selected_story = title, !.create_mode = FALSE,
                                       !.outline_mode = TRUE]
                  ELSE session
    /\ UNCHANGED <<info_json, outlines_json, storyVars, callers, parse>>

\* "Finalize Story" of the outline view, which is there when both records of
\* the selected story were loaded: finalize_story runs; when it returns
\* outline mode is left, when it raises the session is as it was
FinalizeClick(outcome) ==
    /\ session.outline_mode
    /\ OutlineViewError = ""
    /\ shelf' = [shelf EXCEPT ![session.selected_story] = FinalizedFolder(@, outcome)]
    /\ session' = IF outcome = "done" THEN [session EXCEPT !.outline_mode = FALSE]
                  ELSE session
    /\ UNCHANGED <<info_json, outlines_json, storyVars, callers, parse>>

\* One browser session on a story directory that starts empty.  (The
\* "Improve Outline" form rewrites the text of outlines.json and changes
\* neither the session nor which files exist.)
NextUI ==
    \/ CreateStoryClick
    \/ \E s \in Titles : StoryClick(s)
    \/ \E s \in Titles : DeleteClick(s)
    \/ \E title \in Titles, returned \in BOOLEAN : SubmitCreateForm(title, returned)
    \/ \E outcome \in FinalizeOutcomes : FinalizeClick(outcome)

SpecUI == Init /\ [][NextUI]_vars

\* =================================================================== claims

\* the record read back from <k>.json
Record(k) == JsonLoads(episode_json[k]).val

\* the indices that have a record in the ledger
Persisted == {k \in Indices : episode_json[k] # PyNone}

\* the indices whose record the current run wrote
PersistedByRun == {k \in Indices : run > 0 /\ written_by[k] = run}

EpisodeCalls == SelectSeq(calls, LAMBDA c : c.kind = "episode")

\* record[key], or None when the record has no such field
FieldOrNone(record, key) ==
    IF \E i \in DOMAIN record.items : record.items[i].s = key
    THEN Get(record, key)
    ELSE PyNone

\* C1: when create_story for N episodes has run to completion on a fresh
\* title, the ledger holds an episode record for exactly the indices 1..N.
C1_RecordsExactlyOneToN ==
    (run = 1 /\ pc = "done") => Persisted = 1 .. no_of_episodes

C1_Witness ==
    run = 1 /\ pc = "done" /\ no_of_episodes >= 2 /\ Persisted = 1 .. no_of_episodes

\* C2: when the generation call, the parse of its reply or the summary call
\* fails at index k, create_story ends with the error, the records the run has
\* written are exactly 1..k-1 (on a fresh title no record k exists), and the
\* run makes no further step: whatever follows is a new invocation.
C2_FailureAborts ==
    [][ /\ pc' = "failed" =>
             /\ error' # ""
             /\ {k \in Indices : written_by'[k] = run'} = 1 .. (episode' - 1)
             /\ run' = 1 => {k \in Indices : episode_json'[k] # PyNone} = 1 .. (episode' - 1)
        /\ pc = "failed" => (run' = run + 1 /\ calls' = <<>>) ]_vars

C2_Witness ==
    /\ pc = "failed" /\ error = "APIError" /\ run = 1
    /\ episode = 3 /\ Persisted = {1, 2}
    /\ Len(calls) = 5

\* the last non-empty ended_at among the records 1..m
RECURSIVE LastNonEmptyEndedAt(_)
LastNonEmptyEndedAt(m) ==
    IF m = 0 THEN PyNone
    ELSE LET e == FieldOrNone(Record(m), EndedAtKey) IN
         IF e.t = "str" /\ e.s # <<>> THEN e ELSE LastNonEmptyEndedAt(m - 1)

\* the number of episodes the current run has merged
Merged == Cardinality(PersistedByRun)

\* C3 as stated: last_ended_at is the last non-empty ended_at of the records
\* merged so far, and is never reset to null by a record without one.
C3_AnchorRetained ==
    (run = 1 /\ pc \in {"generate", "done"}) =>
        last_ended_at = LastNonEmptyEndedAt(Merged)

\* C3, amended: after merging episode k, last_ended_at is record k's ended_at
\* field whatever it holds (the empty string included) and None when record k
\* has no such field; that value is the anchor sent with the request for
\* episode k+1.
C3_AnchorFollowsLastRecord ==
    /\ (run = 1 /\ pc \in {"generate", "done"} /\ Merged > 0) =>
           last_ended_at = FieldOrNone(Record(Merged), EndedAtKey)
    /\ \A i \in DOMAIN calls :
           (run = 1 /\ calls[i].kind = "episode" /\ calls[i].episode_number > 1) =>
               calls[i].ended_at =
                   FieldOrNone(Record(calls[i].episode_number - 1), EndedAtKey)

C3_Witness ==
    /\ run = 1 /\ pc = "summarize" /\ episode = 3
    /\ FieldOrNone(Record(1), EndedAtKey) = JStr(<<"x">>)
    /\ EndedAtKey \notin Keys(Record(2))
    /\ last_ended_at = PyNone
    /\ calls[Len(calls)].ended_at = PyNone

\* C4: at every point of a run the records it has written are a prefix 1..m
\* of 1..N, the episode requests it has sent are those for 1, 2, ... in that
\* order, each once, and the request for episode k+1 is sent only when record
\* k has been written.
C4_StrictlyInOrder ==
    run > 0 =>
        /\ \E m \in 0 .. no_of_episodes : PersistedByRun = 1 .. m
        /\ \A i \in DOMAIN EpisodeCalls : EpisodeCalls[i].episode_number = i
        /\ \A i \in DOMAIN EpisodeCalls : i > 1 => (i - 1) \in PersistedByRun

C4_Witness ==
    /\ pc = "summarize" /\ episode = 3
    /\ PersistedByRun = {1, 2}
    /\ Len(EpisodeCalls) = 3

\* C5 as stated: a run invoked after a run that failed at index k leaves the
\* records 1..k-1 alone and requests no episode below k.
C5_ResumesAtFailedIndex ==
    failed_at > 0 =>
        /\ \A j \in 1 .. (failed_at - 1) : written_by[j] # run
        /\ \A i \in DOMAIN calls : calls[i].episode_number >= failed_at

\* C5, amended: create_story does not resume.  Invoked again after a run that
\* failed at index k, it starts over at index 1 with an empty cursor (no
\* summary context, no previous characters, no ended_at anchor) and
\* regenerates and overwrites the records from 1 on as it proceeds; a record
\* it has not reached yet is the one the failed run left.
C5_RestartsAtOne ==
    failed_at > 0 =>
        /\ calls # <<>> =>
              calls[1] = EpisodeCall(1, no_of_episodes, PyNone, PyNone, PyNone)
        /\ \A k \in Indices :
              written_by[k] = run <=>
                  k <= (IF pc = "done" THEN no_of_episodes ELSE episode - 1)
        /\ \A k \in Indices :
              (k < failed_at /\ written_by[k] # run) => written_by[k] = run - 1

C5_Witness ==
    /\ failed_at = 3 /\ pc = "generate" /\ episode = 2
    /\ written_by[1] = run /\ written_by[2] = run - 1

\* C6 as stated: every persisted record has all six required fields.
C6_AllFieldsPresent ==
    \A k \in Persisted : RequiredFields \subseteq Keys(Record(k))

\* C6, amended: every record create_story persists is a JSON object with the
\* fields body and summary_till_now, whatever the model returned: a reply
\* without body is never written.  (title, killed_characters,
\* current_characters and ended_at are not checked and may be missing.)
C6_BodyAndSummaryPresent ==
    \A k \in Persisted :
        /\ Record(k).t = "obj"
        /\ {BodyKey, SummaryKey} \subseteq Keys(Record(k))

C6_Witness ==
    \E k \in Persisted :
        /\ EndedAtKey \notin Keys(Record(k))
        /\ {BodyKey, SummaryKey} \subseteq Keys(Record(k))

C19_PreviousCharactersVerbatim ==
    run = 1 =>
        \A i \in DOMAIN EpisodeCalls :
            LET call == EpisodeCalls[i]
                k == call.episode_number
            IN  /\ k = i
                /\ k = 1 => /\ call.previous_characters = PyNone
                            /\ call.summary_context = PyNone
                            /\ call.ended_at = PyNone
                /\ k > 1 => call.previous_characters = Get(Record(k - 1), CurrentKey)

\* episode 2 has been asked for after a record 1 that lists a as killed and
\* as current, and a is among the previous characters
C19_Witness ==
    /\ run = 1
    /\ Len(EpisodeCalls) >= 2
    /\ Get(Record(1), KilledKey) = JArr(<<JStr(<<"a">>)>>)
    /\ EpisodeCalls[2].previous_characters = JArr(<<JStr(<<"a">>)>>)

\* C20: the record persisted for index k carries summary_till_now equal to
\* the running summary after merging episode k, which is also the summary
\* context passed to the generation of episode k+1; for a story of one
\* episode the record's summary_till_now is the summary of that episode.
C20_RecordCarriesRunningSummary ==
    run = 1 =>
        /\ (pc \in {"generate", "done"} /\ Merged > 0) =>
              Get(Record(Merged), SummaryKey) = JStr(total_summary)
        /\ \A i \in DOMAIN EpisodeCalls :
              EpisodeCalls[i].episode_number > 1 =>
                  EpisodeCalls[i].summary_context =
                      Get(Record(EpisodeCalls[i].episode_number - 1), SummaryKey)
        /\ (pc = "done" /\ no_of_episodes = 1) =>
              Get(Record(1), SummaryKey).s \in {Strip(r.s) : r \in SummaryTexts}

\* episode 3 has been asked for with the summary of record 2, which is
\* longer than that of record 1
C20_Witness ==
    /\ run = 1 /\ Len(EpisodeCalls) = 3
    /\ EpisodeCalls[3].summary_context = Get(Record(2), SummaryKey)
    /\ Len(Get(Record(2), SummaryKey).s) > Len(Get(Record(1), SummaryKey).s)

\* the requests of the current run to the summarizer
SummaryCalls == SelectSeq(calls, LAMBDA c : c.kind = "summary")

\* C18 as stated: in the merge step of every episode k > 1 the summarizer is
\* called with the running summary through episode k-1 as previous summary;
\* only for k = 1 is it called without one.
C18_PriorSummaryIsContext ==
    run = 1 =>
        \A i \in DOMAIN SummaryCalls :
            LET k == SummaryCalls[i].episode_number IN
            SummaryCalls[i].previous_summary =
                IF k = 1 THEN PyNone ELSE Get(Record(k - 1), SummaryKey)

\* C18, what the code does: the summarizer is called with the body of the
\* episode alone for every k, never with a previous summary; the running
\* summary is put together by create_story, which appends a newline and the
\* new summary to the one it holds.
C18_SummarizerGetsBodyOnly ==
    run = 1 =>
        /\ \A i \in DOMAIN SummaryCalls : SummaryCalls[i].previous_summary = PyNone
        /\ \A k \in PersistedByRun :
              k > 1 =>
                \E s \in {Strip(r.s) : r \in SummaryTexts} :
                    Get(Record(k), SummaryKey).s
                        = Get(Record(k - 1), SummaryKey).s \o <<NL>> \o s

\* the summarizer has been called for episode 2, after a first summary that
\* is not empty, without a previous summary
C18_Witness ==
    /\ run = 1
    /\ \E i \in DOMAIN SummaryCalls :
          /\ SummaryCalls[i].episode_number = 2
          /\ SummaryCalls[i].previous_summary = PyNone
    /\ Get(Record(1), SummaryKey).s # <<>>

\* ------------------------------------------------------- generate_outlines

\* the keys "1" .. "n"
KeysOneTo(n) == {ToDigits(i) : i \in 1 .. n}

\* v is a map whose keys are exactly "1" .. "n"
IsOutlineMapOf(v, n) == v.t = "obj" /\ Keys(v) = KeysOneTo(n)

\* what the JSON in the reply text decodes to, repair pass included
ReplyJson(reply) == safe_json_parse(JStr(ExtractJson(reply.val.s)))

\* the calls of generate_story_outline that returned
GenerateReturned == {c \in Callers : callers[c].op = "generate_story_outline"
                                      /\ callers[c].at = "returned"}

\* C7 as stated: whenever generate_outlines(total_episodes = N) returns, the
\* returned map has exactly the keys "1" .. "N".
C7_ExactlyKeysOneToN ==
    \A c \in GenerateReturned : IsOutlineMapOf(callers[c].result, callers[c].arg)

\* C7, amended: when generate_outlines(total_episodes = N) returns, either the
\* reply's JSON could not be decoded and the result is the fallback, whose
\* keys are exactly "1" .. "N", each with the placeholder of its index; or
\* the result is the decoded JSON value as it is, whatever its keys and type.
\* The same value is what outlines.json holds.
C7_FallbackOrDecodedVerbatim ==
    \A c \in GenerateReturned :
        LET me == callers[c] IN
        /\ me.reply.err = "" /\ me.reply.val.t = "str"
        /\ IF ReplyJson(me.reply).err # ""
           THEN /\ IsOutlineMapOf(me.result, me.arg)
                /\ \A i \in 1 .. me.arg :
                      Get(me.result, ToDigits(i)) = JStr(Placeholder(i))
           ELSE me.result = ReplyJson(me.reply).val
        /\ JsonLoads(outlines_json) = Returned(me.result)

\* the reply cannot be decoded and the fallback for three episodes is returned
C7_Witness ==
    \E c \in GenerateReturned :
        /\ callers[c].arg = 3
        /\ ReplyJson(callers[c].reply).err # ""
        /\ callers[c].result = FallbackOutlines(3)

\* C8 as stated: once the gateway has returned a response, generate_outlines
\* never raises; it raises only what the gateway call raised.
C8_NeverRaisesAfterResponse ==
    \A c \in Callers :
        (callers[c].op = "generate_story_outline" /\ callers[c].at = "raised")
            => callers[c].reply.err # ""

\* C8, what the code does: a response whose content is text that cannot be
\* decoded even after the repair pass (the empty text included) gives the
\* fallback map; a response without content makes re.search raise TypeError
\* before the try block, and outlines.json is left as it was.
C8_FallbackForTextOnly ==
    \A c \in Callers :
        LET me == callers[c] IN
        (me.op = "generate_story_outline" /\ me.at \in {"returned", "raised"}
         /\ me.reply.err = "")
            => IF me.reply.val.t # "str"
               THEN me.at = "raised" /\ me.err = "TypeError" /\ outlines_json = me.before
               ELSE /\ me.at = "returned"
                    /\ ReplyJson(me.reply).err # "" => me.result = FallbackOutlines(me.arg)

C8_Witness ==
    \E c \in Callers :
        /\ callers[c].op = "generate_story_outline" /\ callers[c].at = "raised"
        /\ callers[c].reply = Returned(PyNone)
        /\ callers[c].err = "TypeError"

\* --------------------------------------------------------- improve_outline

\* the calls of improve_outline that returned
ImproveReturned == {c \in Callers : callers[c].op = "improve_outline"
                                     /\ callers[c].at = "returned"}

\* C9: a successful improve_outline(story, k, feedback) changes exactly one
\* entry of the persisted outlines record: the record has the keys it had
\* before the call, entry k is the model's response as the gateway gives it
\* (trimmed), and every other entry is what it was before the call.
C9_OnlyEntryKChanges ==
    \A c \in ImproveReturned :
        LET me == callers[c]
            k == ToDigits(me.arg)
            old == JsonLoads(me.before)
            new == JsonLoads(outlines_json)
        IN  /\ old.err = "" /\ new.err = ""
            /\ old.val.t = "obj" /\ new.val.t = "obj"
            /\ k \in Keys(old.val)
            /\ Keys(new.val) = Keys(old.val)
            /\ Get(new.val, k) = JStr(Strip(me.reply.val.s))
            /\ \A i \in Keys(old.val) \ {k} : Get(new.val, i) = Get(old.val, i)

\* entry 2 of a map of three has been replaced by a response that differs
\* from what it held
C9_Witness ==
    \E c \in ImproveReturned :
        /\ callers[c].arg = 2
        /\ JsonLoads(callers[c].before) = Returned(OutlineMap(3))
        /\ Get(JsonLoads(outlines_json).val, ToDigits(2)) = JStr(<<"p">>)

\* ---------------------------------------------------------- flow_maintainer

\* the calls of flow_maintainer that went into the loop
FlowLooping == {c \in Callers : callers[c].op = "flow_maintainer"
                                 /\ callers[c].request # NoRequest}

\* C10: flow_maintainer(story, m) with m < N revises m+1, m+2, ..., N one at
\* a time in increasing order, and the context given to the model for index
\* j is the entries 1 .. j-1, those up to m as loaded and those of m+1 .. j-1
\* as revised earlier in the same pass.
C10_RevisesInOrderOnFreshContext ==
    \A c \in FlowLooping :
        LET me == callers[c]
            m == me.arg
            old == JsonLoads(me.before).val
            context == me.request.previous_outlines
        IN  /\ m < TotalEpisodes(me.info)
            /\ \A j \in DOMAIN me.revised : me.revised[j].ep = m + j
            /\ me.at = "call" =>
                  /\ me.ep = m + Len(me.revised) + 1
                  /\ me.ep <= TotalEpisodes(me.info)
                  /\ IsOutlineMapOf(context, me.ep - 1)
                  /\ \A i \in 1 .. m : Get(context, ToDigits(i)) = Get(old, ToDigits(i))
                  /\ \A i \in (m + 1) .. (me.ep - 1) :
                        Get(context, ToDigits(i)) = JStr(Strip(me.revised[i - m].text.s))
            /\ me.at = "returned" => Len(me.revised) = TotalEpisodes(me.info) - m

\* the model is asked about episode 3 of three after episode 2 was revised
\* in the same pass to a text that differs from the one loaded
C10_Witness ==
    \E c \in FlowLooping :
        /\ callers[c].at = "call" /\ callers[c].arg = 1 /\ callers[c].ep = 3
        /\ Get(callers[c].loaded, ToDigits(2)) # JStr(<<"p">>)
        /\ Get(callers[c].request.previous_outlines, ToDigits(2)) = JStr(<<"p">>)

\* the calls of flow_maintainer that have loaded both records
FlowLoaded == {c \in Callers : callers[c].op = "flow_maintainer"
                                /\ callers[c].info.t = "obj"}

\* entries 1 .. m of map new are those of map old: the same keys among
\* "1" .. "m", with the same values
SameUpTo(old, new, m) ==
    \A i \in 1 .. m :
        /\ HasKey(new, ToDigits(i)) <=> HasKey(old, ToDigits(i))
        /\ HasKey(old, ToDigits(i)) => Get(new, ToDigits(i)) = Get(old, ToDigits(i))

\* C11: flow_maintainer(story, m) never alters an outline entry with index
\* <= m: in the map it works on, in the map it returns and in the persisted
\* record, entries 1 .. m are what they were before the call.
C11_EntriesUpToModifiedKept ==
    \A c \in FlowLoaded :
        LET me == callers[c]
            old == JsonLoads(me.before).val
        IN  /\ SameUpTo(old, me.outlines, me.arg)
            /\ SameUpTo(old, JsonLoads(outlines_json).val, me.arg)
            /\ me.at = "returned" =>
                  /\ SameUpTo(old, me.result, me.arg)
                  /\ JsonLoads(outlines_json) = Returned(me.result)

\* a pass after episode 2 of three has returned and written a record whose
\* entry 3 differs from the one loaded
C11_Witness ==
    \E c \in FlowLoaded :
        /\ callers[c].at = "returned" /\ callers[c].arg = 2 /\ callers[c].wrote
        /\ IsOutlineMapOf(callers[c].loaded, 3)
        /\ Get(callers[c].result, ToDigits(3)) # Get(callers[c].loaded, ToDigits(3))
        /\ Get(callers[c].result, ToDigits(2)) # JStr(<<"p">>)

\* C12: flow_maintainer(story, m) with m the last episode index is a no-op:
\* it returns without a gateway call and without a write of the outlines
\* record, and what it returns is the map as loaded.
C12_LastEpisodeIsNoOp ==
    \A c \in FlowLoaded :
        LET me == callers[c] IN
        me.arg = TotalEpisodes(me.info) =>
            /\ me.at = "returned"
            /\ me.request = NoRequest /\ me.reply = NoReply /\ me.revised = <<>>
            /\ ~me.wrote /\ outlines_json = me.before
            /\ Returned(me.result) = JsonLoads(me.before)

\* the call for episode 3 of a story of three, whose record holds a map of
\* three, has returned
C12_Witness ==
    \E c \in FlowLoaded :
        /\ callers[c].at = "returned" /\ callers[c].arg = 3
        /\ TotalEpisodes(callers[c].info) = 3
        /\ IsOutlineMapOf(callers[c].result, 3)

\* ---------------------------------------------------------- safe_json_parse

\* the call of safe_json_parse has returned or raised
ParseEnded == parse.at \in {"returned", "raised"}

\* direct decoding, then at most one repair pass followed by one more
\* decoding, and nothing else
ParsePasses ==
    /\ parse.loads <= 2 /\ parse.subs <= 1
    /\ ParseEnded => (parse.loads = 1 /\ parse.subs = 0) \/ (parse.loads = 2 /\ parse.subs = 1)
    /\ (ParseEnded /\ parse.subs = 1) =>
          /\ JsonLoads(parse.response_text).err = "JSONDecodeError"
          /\ parse.result = JsonLoads(JStr(parse.fixed))

\* C13 as stated: safe_json_parse tries direct decoding, then exactly one
\* repair pass followed by one more decoding, and nothing else; it raises
\* only the JSON decode error, whatever its argument.
C13_RaisesOnlyDecodeError ==
    /\ ParsePasses
    /\ parse.at = "raised" => parse.result.err = "JSONDecodeError"

\* C13, what the code does: the passes are as stated, and a JSON decode error
\* is raised when the repaired text does not decode; but an argument that is
\* no text makes the first json.loads raise TypeError, which the except
\* clause does not catch.
C13_DecodeErrorOrTypeError ==
    /\ ParsePasses
    /\ parse.at = "raised" =>
          IF parse.response_text.t = "str"
          THEN parse.result.err = "JSONDecodeError" /\ parse.loads = 2
          ELSE parse.result.err = "TypeError" /\ parse.loads = 1 /\ parse.subs = 0

C13_Witness ==
    /\ parse.at = "raised" /\ parse.response_text = PyNone
    /\ parse.result.err = "TypeError"

\* C14 as stated: JSON but for one stray backslash in a string value is
\* parsed after the repair pass wherever the backslash stands; text with
\* unbalanced braces fails in both passes.
C14_StrayBackslashRepaired ==
    /\ (parse.kind = "stray" /\ ParseEnded) =>
          parse.at = "returned" /\ parse.subs = 1
    /\ (parse.kind = "unbalanced" /\ ParseEnded) =>
          parse.at = "raised" /\ parse.loads = 2

\* C14, what the code does: the first decoding of such a text fails and the
\* repair pass runs; the second decoding succeeds unless the pass changed
\* nothing, which is the case of a stray backslash that stands directly after
\* another backslash.  Text with unbalanced braces fails in both passes.
C14_RepairedUnlessAfterBackslash ==
    /\ (parse.kind = "stray" /\ ParseEnded) =>
          /\ parse.subs = 1 /\ parse.loads = 2
          /\ parse.at = "raised" <=> parse.fixed = parse.response_text.s
    /\ (parse.kind = "unbalanced" /\ ParseEnded) =>
          parse.at = "raised" /\ parse.loads = 2

C14_Witness ==
    /\ parse.kind = "stray" /\ parse.at = "raised"
    /\ parse.response_text = JStr(OneField(<<BS, BS, BS, "q">>))

\* C15: for every valid record x, safe_json_parse of the JSON encoding of x
\* returns a value equal to x, and the repair pass is not applied.
C15_RoundTrip ==
    (parse.kind = "encoded" /\ parse.at # "direct") =>
        /\ parse.at = "returned"
        /\ parse.result = Returned(parse.record)
        /\ parse.loads = 1 /\ parse.subs = 0

\* the encoding of a record with a backslash and a quote in a field has been
\* parsed
C15_Witness ==
    /\ parse.kind = "encoded" /\ parse.at = "returned"
    /\ Get(parse.record, BodyKey) = JStr(<<BS, DQ>>)
    /\ parse.result.val = parse.record

\* -------------------------------------------------- failures of the gateway

\* the calls of improve_outline and flow_maintainer that a failure of the
\* gateway has ended
GatewayFailed == {c \in Callers : /\ callers[c].op \in {"improve_outline", "flow_maintainer"}
                                   /\ callers[c].at = "raised"
                                   /\ callers[c].reply.err \notin {"", "-"}}

\* C16: when the gateway call fails inside improve_outline, or at any index
\* inside a pass of flow_maintainer, the caller gets that error and the
\* persisted outlines record is what it was before the call: nothing the
\* call has computed, revisions of earlier indices included, is written.
C16_GatewayFailureKeepsRecord ==
    \A c \in GatewayFailed :
        /\ callers[c].err = callers[c].reply.err
        /\ ~callers[c].wrote
        /\ outlines_json = callers[c].before

\* a pass after episode 1 of three has revised episode 2 and failed at 3
C16_Witness ==
    \E c \in GatewayFailed :
        /\ callers[c].op = "flow_maintainer" /\ callers[c].arg = 1
        /\ callers[c].ep = 3 /\ Len(callers[c].revised) = 1
        /\ Get(callers[c].outlines, ToDigits(2)) # Get(callers[c].loaded, ToDigits(2))

\* -------------------------------------------------------------- ending note

\* the positions in calls of the episode requests with the conclusive note
ConclusiveCalls ==
    {i \in DOMAIN calls : calls[i].kind = "episode" /\ calls[i].ending = "conclusive"}

\* C21: in a run of N episodes the request for episode k carries the
\* conclusive-ending instruction if and only if k = N, and the cliffhanger
\* instruction otherwise; a completed run has sent exactly one conclusive
\* request, and it is its last episode request (the first one when N = 1).
C21_ConclusiveIffLast ==
    /\ \A i \in DOMAIN calls :
          calls[i].kind = "episode" =>
             /\ calls[i].ending \in {"conclusive", "cliffhanger"}
             /\ calls[i].ending = "conclusive" <=> calls[i].episode_number = no_of_episodes
    /\ pc = "done" =>
          /\ Cardinality(ConclusiveCalls) = 1
          /\ \A i \in ConclusiveCalls :
                /\ calls[i].episode_number = no_of_episodes
                /\ \A j \in DOMAIN calls : calls[j].kind = "episode" => j <= i

\* a run of three episodes is complete: two cliffhanger requests, then the
\* conclusive one
C21_Witness ==
    /\ pc = "done" /\ no_of_episodes = 3
    /\ Len(EpisodeCalls) = 3
    /\ EpisodeCalls[1].ending = "cliffhanger"
    /\ EpisodeCalls[2].ending = "cliffhanger"
    /\ EpisodeCalls[3].ending = "conclusive"

\* ------------------------------------------------- the pass of flow_maintainer

\* the calls of flow_maintainer that went through the loop and returned
FlowPassed == {c \in FlowLooping : callers[c].at = "returned"}

\* C22: in a successful pass flow_maintainer(story, m), for every j in
\* m+1 .. N the final entry j, in the map returned and in the persisted
\* record, is the model's response for j, trimmed, whether or not it differs
\* from the old text; the pass has made exactly N - m gateway calls, one per
\* index, and keeps no old entry j > m in place of the response.
C22_EveryLaterEntryIsTheResponse ==
    \A c \in FlowPassed :
        LET me == callers[c]
            m == me.arg
            n == TotalEpisodes(me.info)
            new == JsonLoads(outlines_json)
        IN  /\ m < n
            /\ Len(me.revised) = n - m
            /\ me.wrote /\ new = Returned(me.result)
            /\ \A j \in (m + 1) .. n :
                  /\ me.revised[j - m].ep = j
                  /\ me.revised[j - m].text.t = "str"
                  /\ Get(new.val, ToDigits(j)) = JStr(Strip(me.revised[j - m].text.s))

\* a pass after episode 1 of three has returned; the response for episode 2
\* is the text entry 2 held already, the one for episode 3 differs from the
\* old entry 3
C22_Witness ==
    \E c \in FlowPassed :
        /\ callers[c].arg = 1 /\ TotalEpisodes(callers[c].info) = 3
        /\ Get(callers[c].loaded, ToDigits(2)) = JStr(Strip(callers[c].revised[1].text.s))
        /\ Get(callers[c].loaded, ToDigits(3)) # JStr(Strip(callers[c].revised[2].text.s))
        /\ Get(callers[c].result, ToDigits(2)) = Get(callers[c].loaded, ToDigits(2))
        /\ Get(callers[c].result, ToDigits(3)) # Get(callers[c].loaded, ToDigits(3))

\* ------------------------------------------------------- missing artifacts

\* the calls of improve_outline and flow_maintainer
RevisionCalls == {c \in Callers : callers[c].op \in {"improve_outline", "flow_maintainer"}}

\* The call of caller c found the info record or the outlines record missing,
\* or the outlines record it found is a map that lacks an entry of indices(c).
\* (One caller at a time: info.json is what it was when the call began.)
MissingArtifact(c, indices(_)) ==
    LET info == LoadJson(info_json)
        outl == LoadJson(callers[c].before)
    IN  \/ info_json = PyNone
        \/ callers[c].before = PyNone
        \/ /\ info.err = "" /\ info.val.t = "obj" /\ outl.err = "" /\ outl.val.t = "obj"
           /\ \E i \in indices(c) : ~HasKey(outl.val, ToDigits(i))

\* the call of caller c has not returned and the ledger is as it was
FailsWithoutWrite(c) ==
    /\ callers[c].at \in {"call", "raised"}
    /\ callers[c].op = "improve_outline" => callers[c].at = "raised"
    /\ callers[c].at = "raised" => callers[c].err # ""
    /\ ~callers[c].wrote
    /\ outlines_json = callers[c].before

\* 1 .. k for improve_outline at k, 1 .. N for flow_maintainer
ContextIndices(c) ==
    IF callers[c].op = "improve_outline" THEN 1 .. callers[c].arg
    ELSE 1 .. TotalEpisodes(LoadJson(info_json).val)

\* the same, but none for flow_maintainer(m) with m >= N
IndicesRead(c) ==
    IF callers[c].op = "flow_maintainer"
       /\ callers[c].arg >= TotalEpisodes(LoadJson(info_json).val)
    THEN {}
    ELSE ContextIndices(c)

\* C23 as stated: when the info record, the outlines record or an outline
\* entry of 1 .. k (improve_outline at k) or of 1 .. N (flow_maintainer) is
\* missing, the step fails with an error and writes nothing.
C23_MissingArtifactFails ==
    \A c \in RevisionCalls : MissingArtifact(c, ContextIndices) => FailsWithoutWrite(c)

\* C23: when the info record, the outlines record, or an outline entry of
\* 1 .. k for improve_outline at k, or of 1 .. N for flow_maintainer(m) with
\* m < N, is missing, the step fails with an error and writes nothing to the
\* ledger; flow_maintainer(m) with m >= N reads no entry, and with both
\* records present it returns the map as loaded, writing nothing either.
C23_MissingArtifactFailsWhenRead ==
    \A c \in RevisionCalls :
        /\ MissingArtifact(c, IndicesRead) => FailsWithoutWrite(c)
        /\ (MissingArtifact(c, ContextIndices) /\ ~MissingArtifact(c, IndicesRead)) =>
              /\ callers[c].at = "returned" /\ callers[c].err = ""
              /\ ~callers[c].wrote /\ outlines_json = callers[c].before
              /\ Returned(callers[c].result) = JsonLoads(callers[c].before)

\* a pass after episode 1 of a story of three, whose record lacks entry 3,
\* has revised episode 2 and failed on the lookup of entry 3
C23_Witness ==
    \E c \in RevisionCalls :
        /\ callers[c].op = "flow_maintainer" /\ callers[c].arg = 1
        /\ MissingArtifact(c, IndicesRead)
        /\ IsOutlineMapOf(callers[c].loaded, 2)
        /\ Len(callers[c].revised) = 1
        /\ callers[c].at = "raised" /\ callers[c].err = "KeyError"

\* ------------------------------------------------- keys of the outlines record

\* the keys of the map in text, in the order they stand in it; a text that
\* holds no map has none
KeysInOrder(text) ==
    LET r == JsonLoads(text) IN
    IF r.err = "" /\ r.val.t = "obj"
    THEN [i \in DOMAIN r.val.items |-> r.val.items[i].s]
    ELSE <<>>

\* C24: a step of improve_outline or of flow_maintainer, whether the call
\* succeeds or fails and whatever its episode index, leaves the keys of the
\* persisted outlines record as they were: none added, deleted, renamed or
\* moved, and a missing record stays missing; so a map with the keys 1 .. N
\* keeps the keys 1 .. N over any sequence of such calls.
C24_KeysPreserved ==
    [][ (\E c \in Callers : callers'[c] # callers[c]
                             /\ callers'[c].op \in {"improve_outline", "flow_maintainer"}) =>
            /\ (outlines_json' = PyNone) <=> (outlines_json = PyNone)
            /\ KeysInOrder(outlines_json') = KeysInOrder(outlines_json) ]_vars

\* a pass after episode 1 has rewritten the record of a story of three, and
\* its keys are still 1, 2, 3
C24_Witness ==
    \E c \in FlowPassed :
        /\ callers[c].wrote /\ outlines_json # callers[c].before
        /\ KeysInOrder(callers[c].before) = <<ToDigits(1), ToDigits(2), ToDigits(3)>>
        /\ KeysInOrder(outlines_json) = <<ToDigits(1), ToDigits(2), ToDigits(3)>>

\* ------------------------------------------------ records of an earlier run

\* C25 as stated: once create_story for N episodes has completed, the ledger
\* holds no episode record with an index above N, also when the title held
\* the records of an earlier, longer run.
C25_NoRecordBeyondN ==
    pc = "done" => \A k \in Persisted : k <= no_of_episodes

\* C25: create_story deletes no episode record and writes none with an
\* index above N: the records above N that an earlier run left on the title
\* stay in the ledger as they are.
C25_RecordsBeyondNStay ==
    [][ \A k \in Indices :
           /\ episode_json[k] # PyNone => episode_json'[k] # PyNone
           /\ k > no_of_episodes' =>
                 (episode_json'[k] = episode_json[k] /\ written_by'[k] = written_by[k]) ]_vars

\* a run of one episode has completed on a title that holds the records of a
\* run of three: records 2 and 3 of that run are still there
C25_Witness ==
    /\ pc = "done" /\ run = 2 /\ no_of_episodes = 1
    /\ Persisted = {1, 2, 3}
    /\ written_by = <<2, 1, 1>>

\* ------------------------------------------------------- interleaved calls

\* the calls of improve_outline and flow_maintainer that returned after
\* writing the outlines record
Revised == {c \in RevisionCalls : callers[c].at = "returned" /\ callers[c].wrote}

\* the entries the call of caller c assigns: k for improve_outline at k,
\* m+1 .. N for flow_maintainer(m)
OwnIndices(c) ==
    IF callers[c].op = "improve_outline" THEN {callers[c].arg}
    ELSE (callers[c].arg + 1) .. TotalEpisodes(callers[c].info)

\* the text the call of caller c, which returned, has put at its entry i
Revision(c, i) ==
    IF callers[c].op = "improve_outline" THEN JStr(Strip(callers[c].reply.val.s))
    ELSE JStr(Strip(callers[c].revised[i - callers[c].arg].text.s))

\* C26 as stated: when two revision calls that touch different indices
\* interleave and both have returned, the persisted outlines record holds
\* the revisions of both.
C26_BothRevisionsPresent ==
    \A c, d \in Revised :
        (c # d /\ OwnIndices(c) \cap OwnIndices(d) = {}) =>
            \A i \in OwnIndices(c) :
                Get(JsonLoads(outlines_json).val, ToDigits(i)) = Revision(c, i)

\* C26: each revision call writes back the whole map it loaded with only
\* its own entries replaced, and the persisted record is always the map of
\* the call that wrote last (or the record as generated, while no call has
\* written): every entry the last writer does not own holds the text that
\* writer loaded, so a revision the other call wrote after that load is
\* overwritten with the stale text.
C26_LastWriterWins ==
    /\ \A c \in Revised :
          /\ Keys(callers[c].outlines) = Keys(callers[c].loaded)
          /\ \A i \in OwnIndices(c) : Get(callers[c].outlines, ToDigits(i)) = Revision(c, i)
          /\ \A k \in Keys(callers[c].loaded) \ {ToDigits(i) : i \in OwnIndices(c)} :
                Get(callers[c].outlines, k) = Get(callers[c].loaded, k)
    /\ \/ \E c \in Revised : outlines_json = JStr(JsonDumps(callers[c].outlines))
       \/ /\ Revised = {}
          /\ \E n \in Indices : outlines_json = JStr(JsonDumps(OutlineMap(n)))

\* improve_outline for episode 1 and improve_outline for episode 2 both
\* loaded the map as generated and both returned; the record holds the
\* revision of episode 2 and, at 1, the text as generated: the revision of
\* episode 1, which its caller got back, is gone
C26_Witness ==
    \E c, d \in Revised :
        /\ callers[c].op = "improve_outline" /\ callers[c].arg = 1
        /\ callers[d].op = "improve_outline" /\ callers[d].arg = 2
        /\ callers[c].loaded = OutlineMap(3) /\ callers[d].loaded = OutlineMap(3)
        /\ callers[c].result = Revision(c, 1)
        /\ outlines_json = JStr(JsonDumps(callers[d].outlines))
        /\ Get(JsonLoads(outlines_json).val, ToDigits(1)) = Get(OutlineMap(3), ToDigits(1))
        /\ Get(JsonLoads(outlines_json).val, ToDigits(1)) # Revision(c, 1)
        /\ Get(JsonLoads(outlines_json).val, ToDigits(2)) = Revision(d, 2)

\* ------------------------------------------------------------- outline mode

\* C27 as stated: in every session state in which outline_mode is true,
\* selected_story names a story, and that story has an outlines record.
C27_OutlineModeHasOutlines ==
    session.outline_mode =>
        /\ session.selected_story # NoStory
        /\ shelf[session.selected_story].outlines

\* C27: in outline mode the create form is closed, and selected_story is
\* None or names a story whose folder and info record exist; it is None
\* only after the selected story was deleted, and then the outline view
\* raises a TypeError.
C27_OutlineModeSelection ==
    session.outline_mode =>
        /\ ~session.create_mode
        /\ session.selected_story = NoStory =>
              (session.deleted_stories # {} /\ OutlineViewError = "TypeError")
        /\ session.selected_story # NoStory =>
              (shelf[session.selected_story].dir /\ shelf[session.selected_story].info)

\* the story created last was deleted from the sidebar while its outlines
\* were shown: outline mode with no story selected
C27_Witness ==
    /\ session.outline_mode /\ session.selected_story = NoStory
    /\ session.deleted_stories = {"s"} /\ shelf["s"].outlines
    /\ OutlineViewError = "TypeError"

\* story "t" has an info record only (the generation of its outlines
\* failed); it was clicked while the outlines of another story were shown
C27_WitnessClicked ==
    /\ session.outline_mode /\ session.selected_story = "t"
    /\ shelf["t"].info /\ ~shelf["t"].outlines /\ ~shelf["t"].episodes
    /\ OutlineViewError = "Could not load outlines"

\* --------------------------------------------- generate_story_outline failing

\* the calls of generate_story_outline that have ended
GenerateEnded == {c \in Callers : callers[c].op = "generate_story_outline"
                                   /\ callers[c].at \in {"returned", "raised"}}

\* C28 as stated: after generate_story_outline has returned or failed, the
\* info record exists if and only if the outlines record exists.
C28_InfoIffOutlines ==
    \A c \in GenerateEnded : (info_json # PyNone) <=> (outlines_json # PyNone)

\* C28: generate_story_outline writes the info record before it calls the
\* gateway and the outlines record after: when it returns both exist; when
\* it fails the info record is the one of this call and the outlines record
\* is what it was before the call, missing on a new title.
C28_InfoWrittenFirst ==
    \A c \in GenerateEnded :
        /\ info_json = JStr(JsonDumps(OutlineInfo(callers[c].arg)))
        /\ callers[c].at = "returned" => (callers[c].wrote /\ outlines_json # PyNone)
        /\ callers[c].at = "raised" => (~callers[c].wrote /\ outlines_json = callers[c].before)

\* the gateway failed during the outline generation for a new title: an
\* info record and no outlines record
C28_Witness ==
    \E c \in GenerateEnded :
        /\ callers[c].at = "raised" /\ callers[c].err = "APIError"
        /\ callers[c].before = PyNone
        /\ info_json # PyNone /\ outlines_json = PyNone

\* ---------------------------------------------------- the summary only grows

\* summary_till_now of the persisted record k
SummaryTillNow(k) == Get(Record(k), SummaryKey).s

IsPrefix(a, b) == Len(a) <= Len(b) /\ SubSeq(b, 1, Len(a)) = a

\* C29: within one run of create_story, for every k > 1 the
\* summary_till_now of record k is that of record k-1 followed by a newline
\* and the summary of episode k (what the summarizer returned, trimmed); so
\* the summary_till_now of every earlier record of the run is a prefix of
\* that of every later one.
C29_SummaryOnlyGrows ==
    /\ \A k \in PersistedByRun :
          k > 1 =>
             /\ k - 1 \in PersistedByRun
             /\ \E r \in SummaryTexts :
                   SummaryTillNow(k) = SummaryTillNow(k - 1) \o <<NL>> \o Strip(r.s)
    /\ \A j, k \in PersistedByRun :
          j < k => /\ IsPrefix(SummaryTillNow(j), SummaryTillNow(k))
                   /\ Len(SummaryTillNow(j)) < Len(SummaryTillNow(k))

\* a run has written three records, and the summaries of the three
\* episodes stand in the third one, a newline between them
C29_Witness ==
    /\ PersistedByRun = {1, 2, 3}
    /\ SummaryTillNow(1) = <<"S">>
    /\ SummaryTillNow(2) = <<"S", NL, "S">>
    /\ SummaryTillNow(3) = <<"S", NL, "S", NL, "S">>

====
